---- MODULE Spec2Model ----
(***************************************************************************)
(* QR generation fallback pipeline and payload contract:                   *)
(*   QRApiService (generateQRWithAPI, generateBatchQR, generateTrackingQR, *)
(*   validateQRData, buildQRServerUrl, buildQuickChartUrl) and             *)
(*   QRService (generateQR, generateEnhancedQR, generateTrackingQR,        *)
(*   parseQRData, generateHash).                                           *)
(*                                                                         *)
(* A JavaScript string is a sequence of one-character strings, so that     *)
(* JSON.stringify, JSON.parse, trim, template literals and URL encoding    *)
(* are computed character by character.                                    *)
(***************************************************************************)
EXTENDS Integers, Sequences, FiniteSets, TLC

\* ------------------------------------------------------------------------
\* Bounds of the model
\* ------------------------------------------------------------------------

\* longest raw string over RawAlphabet handed to parseQRData
MaxRawLen == 4

\* Date.now() answers one of 9 .. 9 + MaxClock (one- and two-digit stamps)
MaxClock == 1

\* ------------------------------------------------------------------------
\* Characters and string literals of the source
\* ------------------------------------------------------------------------

QUOTE == "\""

BSLASH == "\\"

\* whitespace JSON.parse skips between tokens
JsonWS == {" ", "\t", "\n", "\r"}

\* whitespace String.prototype.trim strips (the part of it in the alphabet)
TrimWS == JsonWS \cup {"\f"}

\* characters below U+0020, which JSON forbids unescaped inside a string
ControlChars == {"\t", "\n", "\r", "\f"}

Digits == <<"0", "1", "2", "3", "4", "5", "6", "7", "8", "9">>

DigitSet == {Digits[i] : i \in 1..10}

DigitVal(c) == (CHOOSE i \in 1..10 : Digits[i] = c) - 1

\* the property names of the payload, as the source spells them
Key ==
  [
    batchId |-> <<"b","a","t","c","h","I","d">>,
    eventId |-> <<"e","v","e","n","t","I","d">>,
    type |-> <<"t","y","p","e">>,
    herbSpecies |-> <<"h","e","r","b","S","p","e","c","i","e","s">>,
    participant |-> <<"p","a","r","t","i","c","i","p","a","n","t">>,
    trackingUrl |-> <<"t","r","a","c","k","i","n","g","U","r","l">>,
    timestamp |-> <<"t","i","m","e","s","t","a","m","p">>,
    version |-> <<"v","e","r","s","i","o","n">>,
    network |-> <<"n","e","t","w","o","r","k">>,
    collector |-> <<"c","o","l","l","e","c","t","o","r">>,
    tester |-> <<"t","e","s","t","e","r">>,
    processor |-> <<"p","r","o","c","e","s","s","o","r">>,
    manufacturer |-> <<"m","a","n","u","f","a","c","t","u","r","e","r">> ]

\* ------------------------------------------------------------------------
\* JavaScript values
\* ------------------------------------------------------------------------
\* k: the kind; n: the number (or 0/1 of a boolean); s: the characters of a
\* string; v: the <<key, value>> pairs of an object in insertion order, or
\* the elements of an array.

JUndef == [k |-> "undefined", n |-> 0, s |-> <<>>, v |-> <<>>]

JNull == [k |-> "null", n |-> 0, s |-> <<>>, v |-> <<>>]

JBool(b) == [k |-> "boolean", n |-> IF b THEN 1 ELSE 0, s |-> <<>>, v |-> <<>>]

JNum(i) == [k |-> "number", n |-> i, s |-> <<>>, v |-> <<>>]

JStr(str) == [k |-> "string", n |-> 0, s |-> str, v |-> <<>>]

JObj(pairs) == [k |-> "object", n |-> 0, s |-> <<>>, v |-> pairs]

JArr(items) == [k |-> "array", n |-> 0, s |-> <<>>, v |-> items]

\* ToBoolean: what `!x`, `x && y`, `x || y` test
Truthy(jv) ==
  CASE jv.k \in {"undefined", "null"} -> FALSE
    [] jv.k = "boolean" -> jv.n = 1
    [] jv.k = "number" -> jv.n # 0
    [] jv.k = "string" -> jv.s # <<>>
    [] OTHER -> TRUE

HasKey(pairs, key) == \E i \in 1..Len(pairs) : pairs[i][1] = key

\* obj[key] = val: an existing key keeps its place, a new key goes last
SetKey(pairs, key, val) ==
  IF HasKey(pairs, key)
  THEN [i \in 1..Len(pairs) |->
          IF pairs[i][1] = key THEN <<key, val>> ELSE pairs[i]]
  ELSE Append(pairs, <<key, val>>)

\* jv.key on a value that is neither null nor undefined: only an object of
\* the payload has own properties named like the payload's fields
Get(jv, key) ==
  IF jv.k = "object" /\ HasKey(jv.v, key)
  THEN jv.v[CHOOSE i \in 1..Len(jv.v) : jv.v[i][1] = key][2]
  ELSE JUndef

\* jv.key throws a TypeError exactly when jv is null or undefined
Nullish(jv) == jv.k \in {"undefined", "null"}

\* ------------------------------------------------------------------------
\* Number and string conversions
\* ------------------------------------------------------------------------

RECURSIVE NatToStr(_)
NatToStr(i) ==
  IF i < 10 THEN <<Digits[i + 1]>>
  ELSE Append(NatToStr(i \div 10), Digits[(i % 10) + 1])

\* String(i) of an integer
NumToStr(i) == IF i < 0 THEN <<"-">> \o NatToStr(0 - i) ELSE NatToStr(i)

RECURSIVE TrimStart(_)
TrimStart(str) ==
  IF str # <<>> /\ Head(str) \in TrimWS THEN TrimStart(Tail(str)) ELSE str

RECURSIVE TrimEnd(_)
TrimEnd(str) ==
  IF str # <<>> /\ str[Len(str)] \in TrimWS
  THEN TrimEnd(SubSeq(str, 1, Len(str) - 1))
  ELSE str

\* String.prototype.trim
Trim(str) == TrimEnd(TrimStart(str))

\* ------------------------------------------------------------------------
\* JSON.stringify
\* ------------------------------------------------------------------------

\* EscapeChar without the escapes: every character is written as it is
EscapeCharRaw(c) == <<c>>

\* the escape JSON.stringify writes for one character of a string
EscapeChar(c) ==
  CASE c = QUOTE -> <<BSLASH, QUOTE>>
    [] c = BSLASH -> <<BSLASH, BSLASH>>
    [] c = "\n" -> <<BSLASH, "n">>
    [] c = "\t" -> <<BSLASH, "t">>
    [] c = "\r" -> <<BSLASH, "r">>
    [] c = "\f" -> <<BSLASH, "f">>
    [] OTHER -> <<c>>

\* the concatenation of a sequence of strings, by halves
RECURSIVE Flatten(_)
Flatten(parts) ==
  IF parts = <<>> THEN <<>>
  ELSE IF Len(parts) = 1 THEN parts[1]
  ELSE Flatten(SubSeq(parts, 1, Len(parts) \div 2))
         \o Flatten(SubSeq(parts, (Len(parts) \div 2) + 1, Len(parts)))

EscapeStr(str) == Flatten([i \in 1..Len(str) |-> EscapeChar(str[i])])

QuoteStr(str) == <<QUOTE>> \o EscapeStr(str) \o <<QUOTE>>

RECURSIVE Stringify(_)
RECURSIVE StringifyPairs(_, _)
RECURSIVE StringifyItems(_, _)

\* the members of an object: a property whose value is undefined is skipped
StringifyPairs(pairs, first) ==
  IF pairs = <<>> THEN <<>>
  ELSE IF Head(pairs)[2].k = "undefined" THEN StringifyPairs(Tail(pairs), first)
  ELSE (IF first THEN <<>> ELSE <<",">>)
         \o QuoteStr(Head(pairs)[1]) \o <<":">> \o Stringify(Head(pairs)[2])
         \o StringifyPairs(Tail(pairs), FALSE)

\* the elements of an array: undefined is written as null
StringifyItems(items, first) ==
  IF items = <<>> THEN <<>>
  ELSE (IF first THEN <<>> ELSE <<",">>)
         \o (IF Head(items).k = "undefined" THEN <<"n","u","l","l">>
             ELSE Stringify(Head(items)))
         \o StringifyItems(Tail(items), FALSE)

Stringify(x) ==
  CASE x.k = "string" -> QuoteStr(x.s)
    [] x.k = "number" -> NumToStr(x.n)
    [] x.k = "boolean" -> IF x.n = 1 THEN <<"t","r","u","e">>
                          ELSE <<"f","a","l","s","e">>
    [] x.k = "null" -> <<"n","u","l","l">>
    [] x.k = "object" -> <<"{">> \o StringifyPairs(x.v, TRUE) \o <<"}">>
    [] x.k = "array" -> <<"[">> \o StringifyItems(x.v, TRUE) \o <<"]">>

\* ------------------------------------------------------------------------
\* JSON.parse
\* ------------------------------------------------------------------------
\* Each parser takes the characters still unread and answers
\* [ok, val, rest]; ok = FALSE is the SyntaxError JSON.parse throws.
\* Numbers are integers and the escapes \b and \uXXXX are not decoded: the
\* strings of this model hold no fraction, exponent, \b or \u.

PFail == [ok |-> FALSE, val |-> JUndef, rest |-> <<>>]

POk(x, rest) == [ok |-> TRUE, val |-> x, rest |-> rest]

RECURSIVE SkipWS(_)
SkipWS(str) ==
  IF str # <<>> /\ Head(str) \in JsonWS THEN SkipWS(Tail(str)) ELSE str

StartsWith(str, lit) == Len(str) >= Len(lit) /\ SubSeq(str, 1, Len(lit)) = lit

Drop(str, cnt) == SubSeq(str, cnt + 1, Len(str))

\* the character an escape sequence \c stands for; <<>> when \c is no escape
Unescape(c) ==
  CASE c \in {QUOTE, BSLASH, "/"} -> <<c>>
    [] c = "n" -> <<"\n">>
    [] c = "t" -> <<"\t">>
    [] c = "r" -> <<"\r">>
    [] c = "f" -> <<"\f">>
    [] OTHER -> <<>>

\* the rest of a string literal, after its opening quote
RECURSIVE ParseStrBody(_, _)
ParseStrBody(str, acc) ==
  IF str = <<>> THEN PFail
  ELSE IF Head(str) = QUOTE THEN POk(JStr(acc), Tail(str))
  ELSE IF Head(str) \in ControlChars THEN PFail
  ELSE IF Head(str) = BSLASH
       THEN IF Len(str) < 2 \/ Unescape(str[2]) = <<>> THEN PFail
            ELSE ParseStrBody(Drop(str, 2), acc \o Unescape(str[2]))
  ELSE ParseStrBody(Tail(str), Append(acc, Head(str)))

RECURSIVE ParseDigits(_, _)
ParseDigits(str, acc) ==
  IF str # <<>> /\ Head(str) \in DigitSet
  THEN ParseDigits(Tail(str), acc * 10 + DigitVal(Head(str)))
  ELSE [n |-> acc, rest |-> str]

\* -?(0|[1-9][0-9]*)
ParseNumber(str) ==
  LET neg == str # <<>> /\ Head(str) = "-"
      body == IF neg THEN Tail(str) ELSE str
  IN IF body = <<>> \/ Head(body) \notin DigitSet THEN PFail
     ELSE IF Head(body) = "0" THEN POk(JNum(0), Tail(body))
     ELSE LET d == ParseDigits(body, 0)
          IN POk(JNum(IF neg THEN 0 - d.n ELSE d.n), d.rest)

RECURSIVE ParseValue(_)
RECURSIVE ParseMembers(_, _)
RECURSIVE ParseElements(_, _)

\* the members of an object after "{" or ",": "key" : value, then "," or "}"
ParseMembers(str0, pairs) ==
  LET str == SkipWS(str0)
  IN IF str = <<>> \/ Head(str) # QUOTE THEN PFail
     ELSE LET key == ParseStrBody(Tail(str), <<>>)
              afterKey == SkipWS(key.rest)
          IN IF ~key.ok \/ afterKey = <<>> \/ Head(afterKey) # ":" THEN PFail
             ELSE LET val == ParseValue(Tail(afterKey))
                      afterVal == SkipWS(val.rest)
                      next == SetKey(pairs, key.val.s, val.val)
                  IN IF ~val.ok \/ afterVal = <<>> THEN PFail
                     ELSE IF Head(afterVal) = "}"
                          THEN POk(JObj(next), Tail(afterVal))
                     ELSE IF Head(afterVal) = ","
                          THEN ParseMembers(Tail(afterVal), next)
                     ELSE PFail

\* the elements of an array after "[" or ",": value, then "," or "]"
ParseElements(str0, items) ==
  LET val == ParseValue(str0)
      afterVal == SkipWS(val.rest)
  IN IF ~val.ok \/ afterVal = <<>> THEN PFail
     ELSE IF Head(afterVal) = "]"
          THEN POk(JArr(Append(items, val.val)), Tail(afterVal))
     ELSE IF Head(afterVal) = ","
          THEN ParseElements(Tail(afterVal), Append(items, val.val))
     ELSE PFail

ParseValue(str0) ==
  LET str == SkipWS(str0)
  IN IF str = <<>> THEN PFail
     ELSE IF Head(str) = "{"
          THEN IF SkipWS(Tail(str)) # <<>> /\ Head(SkipWS(Tail(str))) = "}"
               THEN POk(JObj(<<>>), Tail(SkipWS(Tail(str))))
               ELSE ParseMembers(Tail(str), <<>>)
     ELSE IF Head(str) = "["
          THEN IF SkipWS(Tail(str)) # <<>> /\ Head(SkipWS(Tail(str))) = "]"
               THEN POk(JArr(<<>>), Tail(SkipWS(Tail(str))))
               ELSE ParseElements(Tail(str), <<>>)
     ELSE IF Head(str) = QUOTE THEN ParseStrBody(Tail(str), <<>>)
     ELSE IF Head(str) = "-" \/ Head(str) \in DigitSet THEN ParseNumber(str)
     ELSE IF StartsWith(str, <<"n","u","l","l">>) THEN POk(JNull, Drop(str, 4))
     ELSE IF StartsWith(str, <<"t","r","u","e">>) THEN POk(JBool(TRUE), Drop(str, 4))
     ELSE IF StartsWith(str, <<"f","a","l","s","e">>)
          THEN POk(JBool(FALSE), Drop(str, 5))
     ELSE PFail

\* JSON.parse(str): one value, then nothing but whitespace
JsonParse(str) ==
  LET r == ParseValue(str)
  IN IF r.ok /\ SkipWS(r.rest) = <<>> THEN POk(r.val, <<>>) ELSE PFail

\* ------------------------------------------------------------------------
\* String literals of the source
\* ------------------------------------------------------------------------

\* the string literals of the two services
Lit ==
  [
    version |-> <<"1",".","0">>,
    network |-> <<"h","y","p","e","r","l","e","d","g","e","r","-","f","a","b","r","i","c">>,
    track |-> <<"/","t","r","a","c","k","/">>,
    direct_id |-> <<"d","i","r","e","c","t","_","i","d">>,
    undefined |-> <<"u","n","d","e","f","i","n","e","d">>,
    null |-> <<"n","u","l","l">>,
    png |-> <<"p","n","g">>,
    green |-> <<"2","D","5","A","2","7">>,
    white |-> <<"F","F","F","F","F","F">>,
    black |-> <<"0","0","0","0","0","0">>,
    collection |-> <<"c","o","l","l","e","c","t","i","o","n">> ]

\* the query parameter names of the two providers
Param ==
  [
    data |-> <<"d","a","t","a">>,
    size |-> <<"s","i","z","e">>,
    format |-> <<"f","o","r","m","a","t">>,
    ecc |-> <<"e","c","c">>,
    margin |-> <<"m","a","r","g","i","n">>,
    color |-> <<"c","o","l","o","r">>,
    bgcolor |-> <<"b","g","c","o","l","o","r">>,
    text |-> <<"t","e","x","t">> ]

\* QRApiService.providers
providers ==
  [ qrserver |-> <<"h","t","t","p","s",":","/","/","a","p","i",".","q","r","s","e","r","v","e","r",".","c","o","m","/","v","1","/","c","r","e","a","t","e","-","q","r","-","c","o","d","e","/">>,
    goqr |-> <<"h","t","t","p","s",":","/","/","a","p","i",".","q","r","s","e","r","v","e","r",".","c","o","m","/","v","1","/","c","r","e","a","t","e","-","q","r","-","c","o","d","e","/">>,
    quickchart |-> <<"h","t","t","p","s",":","/","/","q","u","i","c","k","c","h","a","r","t",".","i","o","/","q","r">> ]

\* QRService.baseUrl: window.location.origin of the page
baseUrl == <<"h","t","t","p","s",":","/","/","a","p","p",".","e","x","a","m","p","l","e">>

\* ------------------------------------------------------------------------
\* Percent-encoding
\* ------------------------------------------------------------------------

AlphaNum ==
  {
    "A", "B", "C", "D", "E", "F", "G", "H", "I", "J", "K", "L", "M", "N", "O", "P",
    "Q", "R", "S", "T", "U", "V", "W", "X", "Y", "Z", "a", "b", "c", "d", "e", "f",
    "g", "h", "i", "j", "k", "l", "m", "n", "o", "p", "q", "r", "s", "t", "u", "v",
    "w", "x", "y", "z", "0", "1", "2", "3", "4", "5", "6", "7", "8", "9" }

\* the two hex digits of the UTF-8 byte of an ASCII character
PctHex(c) ==
  CASE
       c = " " -> <<"2", "0">>
    [] c = "!" -> <<"2", "1">>
    [] c = "\"" -> <<"2", "2">>
    [] c = "#" -> <<"2", "3">>
    [] c = "$" -> <<"2", "4">>
    [] c = "%" -> <<"2", "5">>
    [] c = "&" -> <<"2", "6">>
    [] c = "'" -> <<"2", "7">>
    [] c = "(" -> <<"2", "8">>
    [] c = ")" -> <<"2", "9">>
    [] c = "*" -> <<"2", "A">>
    [] c = "+" -> <<"2", "B">>
    [] c = "," -> <<"2", "C">>
    [] c = "-" -> <<"2", "D">>
    [] c = "." -> <<"2", "E">>
    [] c = "/" -> <<"2", "F">>
    [] c = ":" -> <<"3", "A">>
    [] c = ";" -> <<"3", "B">>
    [] c = "<" -> <<"3", "C">>
    [] c = "=" -> <<"3", "D">>
    [] c = ">" -> <<"3", "E">>
    [] c = "?" -> <<"3", "F">>
    [] c = "@" -> <<"4", "0">>
    [] c = "[" -> <<"5", "B">>
    [] c = "\\" -> <<"5", "C">>
    [] c = "]" -> <<"5", "D">>
    [] c = "^" -> <<"5", "E">>
    [] c = "_" -> <<"5", "F">>
    [] c = "{" -> <<"7", "B">>
    [] c = "|" -> <<"7", "C">>
    [] c = "}" -> <<"7", "D">>
    [] c = "~" -> <<"7", "E">>
    [] c = "\n" -> <<"0", "A">>
    [] c = "\t" -> <<"0", "9">>
    [] c = "\r" -> <<"0", "D">>
    [] c = "\f" -> <<"0", "C">>

\* encodeURIComponent: every character but letters, digits and the marks
\* - _ . ! ~ * ( ) and the apostrophe becomes %XX
encodeURIComponent(str) ==
  Flatten([i \in 1..Len(str) |->
    IF str[i] \in AlphaNum \cup {"-", "_", ".", "!", "~", "*", "'", "(", ")"}
    THEN <<str[i]>>
    ELSE <<"%">> \o PctHex(str[i])])

\* the application/x-www-form-urlencoded serializer of URLSearchParams:
\* every character but letters, digits and * - . _ becomes %XX, a space
\* becomes +
FormEncode(str) ==
  Flatten([i \in 1..Len(str) |->
    IF str[i] \in AlphaNum \cup {"*", "-", ".", "_"} THEN <<str[i]>>
    ELSE IF str[i] = " " THEN <<"+">>
    ELSE <<"%">> \o PctHex(str[i])])

\* URLSearchParams.toString(): name=value pairs joined by &, in insertion order
RECURSIVE SearchParamsToString(_, _)
SearchParamsToString(params, first) ==
  IF params = <<>> THEN <<>>
  ELSE (IF first THEN <<>> ELSE <<"&">>)
       \o FormEncode(Head(params)[1]) \o <<"=">> \o FormEncode(Head(params)[2])
       \o SearchParamsToString(Tail(params), FALSE)

\* ------------------------------------------------------------------------
\* QRApiService: request URLs
\* ------------------------------------------------------------------------

\* `${options.size}x${options.size}`
SizeParam(size) == NumToStr(size) \o <<"x">> \o NumToStr(size)

buildQRServerUrl(data, options) ==
  providers.qrserver \o <<"?">> \o
    SearchParamsToString(
      << <<Param.data, encodeURIComponent(data)>>,
         <<Param.size, SizeParam(options.size)>>,
         <<Param.format, options.format>>,
         <<Param.ecc, options.errorCorrection>>,
         <<Param.margin, NumToStr(options.margin)>>,
         <<Param.color, options.color>>,
         <<Param.bgcolor, options.backgroundColor>> >>, TRUE)

buildQuickChartUrl(data, options) ==
  providers.quickchart \o <<"?">> \o
    SearchParamsToString(
      << <<Param.text, encodeURIComponent(data)>>,
         <<Param.size, SizeParam(options.size)>>,
         <<Param.format, options.format>> >>, TRUE)

\* an options object with no property
NoOptions == [key \in {} |-> TRUE]

\* the destructuring defaults of generateQRWithAPI
ApiDefaults(options) ==
  [ size |-> IF "size" \in DOMAIN options THEN options.size ELSE 300,
    format |-> IF "format" \in DOMAIN options THEN options.format ELSE Lit.png,
    errorCorrection |-> IF "errorCorrection" \in DOMAIN options
                        THEN options.errorCorrection ELSE <<"H">>,
    margin |-> IF "margin" \in DOMAIN options THEN options.margin ELSE 2,
    color |-> IF "color" \in DOMAIN options THEN options.color ELSE Lit.green,
    backgroundColor |-> IF "backgroundColor" \in DOMAIN options
                        THEN options.backgroundColor ELSE Lit.white ]

\* the options generateQR and generateBatchQR pass to generateQRWithAPI
BrandOptions ==
  [ size |-> 300, format |-> Lit.png, errorCorrection |-> <<"H">>, margin |-> 2,
    color |-> Lit.green, backgroundColor |-> Lit.white ]

\* the options QRApiService.generateTrackingQR passes to generateQRWithAPI
TrackingOptions == [size |-> 200, format |-> Lit.png, errorCorrection |-> <<"M">>]

\* ------------------------------------------------------------------------
\* Images, data URLs and the digest
\* ------------------------------------------------------------------------

NoStyle ==
  [ errorCorrectionLevel |-> <<>>, type |-> <<>>, margin |-> 0,
    dark |-> <<>>, light |-> <<>>, width |-> 0 ]

NoImage == [by |-> "none", url |-> <<>>, ok |-> FALSE, text |-> <<>>, style |-> NoStyle]

\* the body a provider answered to a GET of url, with a 2xx status or not
RemoteImage(url, ok) ==
  [by |-> "remote", url |-> url, ok |-> ok, text |-> <<>>, style |-> NoStyle]

\* what QRCode.toDataURL(text, style) draws
LocalImage(text, style) ==
  [by |-> "local", url |-> <<>>, ok |-> TRUE, text |-> text, style |-> style]

\* FileReader.readAsDataURL: the data: URL of a body, never an empty string
blobToDataURL(blob) == [scheme |-> "data", image |-> blob]

\* hex SHA-256 of the UTF-8 bytes of data; the digest is taken collision-free:
\* two strings have the same hash exactly when they are the same string
generateHash(data) == [alg |-> "SHA-256", of |-> data]

NoHash == [alg |-> "none", of |-> <<>>]

\* the style generateQR hands to QRCode.toDataURL
BrandStyle ==
  [ errorCorrectionLevel |-> <<"H">>, type |-> <<"i","m","a","g","e","/","p","n","g">>,
    margin |-> 2, dark |-> <<"#">> \o Lit.green, light |-> <<"#">> \o Lit.white,
    width |-> 300 ]

\* the style QRService.generateTrackingQR hands to QRCode.toDataURL
TrackingStyle ==
  [ errorCorrectionLevel |-> <<"M">>, type |-> <<"i","m","a","g","e","/","p","n","g">>,
    margin |-> 1, dark |-> <<"#">> \o Lit.black, light |-> <<"#">> \o Lit.white,
    width |-> 200 ]

\* the destructuring defaults of generateEnhancedQR
EnhancedDefaults(options) ==
  [ size |-> IF "size" \in DOMAIN options THEN options.size ELSE 300,
    useAPI |-> IF "useAPI" \in DOMAIN options THEN options.useAPI ELSE TRUE,
    customization |-> IF "customization" \in DOMAIN options
                      THEN options.customization ELSE NoOptions ]

\* the style generateEnhancedQR hands to QRCode.toDataURL when useAPI is false
EnhancedStyle(opt) ==
  [ errorCorrectionLevel |-> <<"H">>, type |-> <<"i","m","a","g","e","/","p","n","g">>,
    margin |-> 2,
    dark |-> IF "color" \in DOMAIN opt.customization /\ opt.customization.color # <<>>
             THEN opt.customization.color ELSE <<"#">> \o Lit.green,
    light |-> IF "backgroundColor" \in DOMAIN opt.customization
                 /\ opt.customization.backgroundColor # <<>>
              THEN opt.customization.backgroundColor ELSE <<"#">> \o Lit.white,
    width |-> opt.size ]

\* ------------------------------------------------------------------------
\* QRService: the payload
\* ------------------------------------------------------------------------

\* `${value}` in a template literal
TemplateStr(jv) ==
  CASE jv.k = "string" -> jv.s
    [] jv.k = "number" -> NumToStr(jv.n)
    [] jv.k = "null" -> Lit.null
    [] jv.k = "boolean" -> IF jv.n = 1 THEN <<"t","r","u","e">>
                           ELSE <<"f","a","l","s","e">>
    [] OTHER -> Lit.undefined

\* `${this.baseUrl}/track/${data.eventId}`
TrackingUrlOf(data) == baseUrl \o Lit.track \o TemplateStr(Get(data, Key.eventId))

\* EnrichedPayload with the derived trackingUrl as a default only: a
\* trackingUrl the caller supplied is kept
EnrichedPayloadKeepsCallerUrl(data, now) ==
  JObj(SetKey(SetKey(
         IF HasKey(data.v, Key.trackingUrl) THEN data.v
         ELSE SetKey(data.v, Key.trackingUrl, JStr(TrackingUrlOf(data))),
         Key.timestamp, JNum(now)),
         Key.version, JStr(Lit.version)))

\* { ...data, trackingUrl, timestamp: Date.now(), version: '1.0' }
EnrichedPayload(data, now) ==
  JObj(SetKey(SetKey(SetKey(data.v,
         Key.trackingUrl, JStr(TrackingUrlOf(data))),
         Key.timestamp, JNum(now)),
         Key.version, JStr(Lit.version)))

\* a || b
OrElse(a, b) == IF Truthy(a) THEN a ELSE b

\* the argument generateEnhancedQR builds for generateBatchQR
BatchDataOf(data, qrData) ==
  JObj(<< <<Key.batchId, Get(data, Key.batchId)>>,
          <<Key.eventId, Get(data, Key.eventId)>>,
          <<Key.type, Get(data, Key.type)>>,
          <<Key.herbSpecies, Get(data, Key.herbSpecies)>>,
          <<Key.participant,
            OrElse(Get(data, Key.collector),
              OrElse(Get(data, Key.tester),
                OrElse(Get(data, Key.processor), Get(data, Key.manufacturer))))>>,
          <<Key.trackingUrl, Get(qrData, Key.trackingUrl)>> >>)

\* generateBatchQR: { ...batchData, timestamp: Date.now(), version, network }
BatchPayload(batchData, now) ==
  JObj(SetKey(SetKey(SetKey(batchData.v,
         Key.timestamp, JNum(now)),
         Key.version, JStr(Lit.version)),
         Key.network, JStr(Lit.network)))

\* ------------------------------------------------------------------------
\* validateQRData and parseQRData
\* ------------------------------------------------------------------------

\* the message of the TypeError a property read of null throws
TypeErrorMessage == "Cannot read properties of null"

\* QRApiService.validateQRData
validateQRData(qrString) ==
  LET p == JsonParse(qrString)
  IN IF ~p.ok \/ Nullish(p.val)
     THEN [valid |-> FALSE, error |-> "Invalid QR code format"]
     ELSE IF ~Truthy(Get(p.val, Key.batchId)) \/ ~Truthy(Get(p.val, Key.eventId))
             \/ ~Truthy(Get(p.val, Key.type))
          THEN [valid |-> FALSE, error |-> "Missing required fields in QR code"]
          ELSE [valid |-> TRUE, data |-> p.val]

\* DirectId without the trim
DirectIdUntrimmed(qrString) ==
  JObj(<< <<Key.eventId, JStr(qrString)>>,
          <<Key.type, JStr(Lit.direct_id)>>,
          <<Key.batchId, JStr(qrString)>> >>)

\* the bare-identifier object parseQRData builds when JSON.parse throws
DirectId(qrString) ==
  JObj(<< <<Key.eventId, JStr(Trim(qrString))>>,
          <<Key.type, JStr(Lit.direct_id)>>,
          <<Key.batchId, JStr(Trim(qrString))>> >>)

\* the candidate object of parseQRData's local parsing
LocalCandidate(qrString) ==
  IF JsonParse(qrString).ok THEN JsonParse(qrString).val ELSE DirectId(qrString)

\* parseThrows without the check of eventId
parseThrowsUnchecked(qrString) ==
  IF validateQRData(qrString).valid THEN ""
  ELSE IF Nullish(LocalCandidate(qrString)) THEN TypeErrorMessage
  ELSE ""

\* the error, if any, thrown inside the try block of parseQRData: "" when the
\* block returns
parseThrows(qrString) ==
  IF validateQRData(qrString).valid THEN ""
  ELSE IF Nullish(LocalCandidate(qrString)) THEN TypeErrorMessage
  ELSE IF ~Truthy(Get(LocalCandidate(qrString), Key.eventId))
       THEN "Invalid QR code format - missing event ID"
  ELSE ""

\* the catch clause of parseQRData
parseCatch(message) == [success |-> FALSE, error |-> message]

\* QRService.parseQRData
parseQRData(qrString) ==
  IF parseThrows(qrString) # "" THEN parseCatch(parseThrows(qrString))
  ELSE IF validateQRData(qrString).valid
       THEN [success |-> TRUE, data |-> validateQRData(qrString).data]
       ELSE [success |-> TRUE, data |-> LocalCandidate(qrString)]

\* ------------------------------------------------------------------------
\* State
\* ------------------------------------------------------------------------
\* calls[c] is one call of a service method by the application:
\*   op, pc         the method called and the await it is suspended at
\*   data, str, options, now    its arguments and the Date.now() it read
\*   qrData, qrString, qrHash   the locals of generateQR / generateEnhancedQR
\*   api            the locals of generateQRWithAPI
\*   tier           per tier (1 primary provider, 2 secondary provider,
\*                  3 local renderer): none, pending, failed or ok
\*   outstanding    the asynchronous operations issued and not yet settled
\*   trace          every asynchronous operation issued and how it settled
\*   console        the console.log / console.warn / console.error entries
\*   result         the value the promise resolved to (pc = "done")
\* ui is the QRCodeDisplay component on screen:
\*   batchData, qrData   its props (batchData may be absent)
\*   currentQR, isRegenerating, customization   its useState values
\*   console        the console.error entries of handleRegenerate

VARIABLES calls, ui

vars == <<calls, ui>>

CallIds == {"c1", "c2"}

NoResult == [settled |-> FALSE]

NoApi ==
  [ data |-> <<>>, options |-> ApiDefaults(NoOptions), qrServerUrl |-> <<>>,
    quickChartUrl |-> <<>>, blob |-> NoImage ]

IdleCall ==
  [ op |-> "idle", pc |-> "idle", data |-> JUndef, str |-> <<>>,
    options |-> NoOptions, now |-> 0,
    qrData |-> JUndef, qrString |-> <<>>, qrHash |-> NoHash,
    api |-> NoApi,
    tier |-> [t \in 1..3 |-> "none"],
    outstanding |-> {}, trace |-> <<>>, console |-> <<>>,
    result |-> NoResult ]

\* the image the component is mounted with
MountedImage == blobToDataURL(LocalImage(<<"E","1">>, BrandStyle))

\* QRCodeDisplay as mounted with the prop batchData: currentQR is
\* qrData.dataURL, nothing is regenerating, the customization is the default
MountedUI(batchData) ==
  [ batchData |-> batchData,
    qrData |-> [ dataURL |-> MountedImage,
                 trackingUrl |-> baseUrl \o Lit.track \o <<"E","1">>,
                 eventId |-> <<"E","1">> ],
    currentQR |-> MountedImage,
    isRegenerating |-> FALSE,
    customization |-> [color |-> Lit.green, backgroundColor |-> Lit.white, size |-> 300],
    console |-> <<>> ]

Init ==
  /\ calls = [c \in CallIds |-> IdleCall]
  /\ ui = MountedUI(JUndef)

\* ------------------------------------------------------------------------
\* Inputs
\* ------------------------------------------------------------------------

Clock == 9..(9 + MaxClock)

\* an object literal: a property whose value is undefined is left out
RECURSIVE Defined(_)
Defined(pairs) ==
  IF pairs = <<>> THEN <<>>
  ELSE IF Head(pairs)[2].k = "undefined" THEN Defined(Tail(pairs))
  ELSE <<Head(pairs)>> \o Defined(Tail(pairs))

OptStr(str) == IF str = <<"?">> THEN JUndef ELSE JStr(str)

\* <<"?">> stands for a property the caller leaves out
Payload(ty, b, e, tr, col) ==
  JObj(Defined(<< <<Key.type, JStr(ty)>>, <<Key.batchId, OptStr(b)>>,
                  <<Key.eventId, OptStr(e)>>, <<Key.trackingUrl, OptStr(tr)>>,
                  <<Key.collector, OptStr(col)>> >>))

\* the payloads handed to generateQR and generateEnhancedQR: plain, with a
\* caller-supplied trackingUrl, with characters JSON escapes, with a required
\* field left out or empty, and null
Payloads ==
  { Payload(Lit.collection, <<"B","1">>, <<"E","1">>, <<"?">>, <<"?">>),
    Payload(Lit.collection, <<"B","1">>, <<"E","1">>, <<"x",":","y">>, <<"A","l"," ","i">>),
    Payload(Lit.collection, <<"b",QUOTE>>, <<"e",BSLASH,"/">>, <<"?">>, <<"A","\n">>),
    Payload(Lit.collection, <<"?">>, <<"E","1">>, <<"?">>, <<"?">>),
    Payload(Lit.collection, <<"B","1">>, <<"?">>, <<"x",":","y">>, <<"?">>),
    Payload(<<>>, <<"B","1">>, <<"E","1">>, <<"?">>, <<"?">>),
    JNull }

Customization ==
  [ color |-> <<"1","6","A","3","4","A">>,
    backgroundColor |-> <<"F","0","F","D","F","4">> ]

EnhancedOptions ==
  { NoOptions,
    [size |-> 300, useAPI |-> TRUE, customization |-> Customization],
    [useAPI |-> FALSE],
    [size |-> 150, useAPI |-> FALSE, customization |-> Customization] }

TrackingUrls == {baseUrl \o Lit.track \o <<"E","1">>, <<"a"," ","%","&">>}

ApiData == {<<"a">>, <<"{",QUOTE,"a",QUOTE,":","1","}">>}

ApiOptions == {NoOptions, TrackingOptions, [margin |-> 1, color |-> Lit.black]}

RawAlphabet == {"{", "}", QUOTE, BSLASH, " ", "0", "1", "a"}

RawStrings == UNION {[1..len -> RawAlphabet] : len \in 0..MaxRawLen}

\* strings a scanner may hand to parseQRData besides the raw ones
ScannedStrings ==
  { Lit.null, <<"t","r","u","e">>, <<"f","a","l","s","e">>, <<"[","]">>,
    <<"[","1",",","0","]">>, <<"-","1">>, <<"\n">>, <<"\f">>, <<" ","\t">>,
    <<"a","b","c","1","2","3">>, <<" ","a","b","c"," ","\n">>,
    <<QUOTE,"a","b","c",QUOTE>>, <<" ","{"," ","}"," ">>,
    baseUrl \o Lit.track \o <<"E","1">> } \cup
  { Stringify(JObj(Defined(<< <<Key.batchId, b>>, <<Key.eventId, e>>, <<Key.type, ty>> >>))) :
      b \in {JUndef, JStr(<<"b">>), JStr(<<>>)},
      e \in {JUndef, JStr(<<"e">>), JStr(<<>>), JNum(0), JNum(5), JNull},
      ty \in {JUndef, JStr(<<"t">>), JNum(0)} }

ParseInputs == RawStrings \cup ScannedStrings

\* what the environment may reject with
FetchError == "Failed to fetch"

BlobError == "body stream interrupted"

ReaderError == "reader error event"

LocalError == "renderer error"

DigestError == "digest unavailable"

\* ------------------------------------------------------------------------
\* Steps of a call: each operator takes the call's record and answers the
\* record at its next await, or at its return
\* ------------------------------------------------------------------------

Event(ev, op, tier, res, url, message) ==
  [ev |-> ev, op |-> op, tier |-> tier, res |-> res, url |-> url, message |-> message]

\* an asynchronous operation is started and awaited
Issue(r, op, tier, url) ==
  [r EXCEPT !.trace = Append(@, Event("call", op, tier, "pending", url, "")),
            !.outstanding = @ \cup {<<op, tier>>}]

\* the awaited operation settles: res is ok, status (a response whose ok is
\* false) or reject
Settle(r, op, tier, res, message) ==
  [r EXCEPT !.trace = Append(@, Event("settle", op, tier, res, <<>>, message)),
            !.outstanding = @ \ {<<op, tier>>}]

Log(r, level, text, arg) ==
  [r EXCEPT !.console = Append(@, [level |-> level, text |-> text, arg |-> arg])]

\* the async function returns: its promise resolves to result
Return(r, result) == [r EXCEPT !.pc = "done", !.result = result]

\* an error no catch clause handles: the promise rejects
Reject(r, message) ==
  [r EXCEPT !.pc = "rejected", !.result = [rejected |-> message]]

\* --- QRService.generateQR ---

\* GQCatch answering the message of generateQRWithAPI whatever was thrown
GQCatchFixedMessage(r, message) ==
  Return(Log(r, "error", "Error generating QR code:", message),
         [success |-> FALSE, error |-> "All QR code APIs are unavailable"])

\* the outer catch clause of generateQR
GQCatch(r, message) ==
  Return(Log(r, "error", "Error generating QR code:", message),
         [success |-> FALSE, error |-> message])

\* the catch clause around the API attempt: QRCode.toDataURL is awaited
GQApiCatch(r, message) ==
  Issue([Log(r, "warn", "QR API failed, using local generation:", message)
           EXCEPT !.pc = "gq_local", !.tier[3] = "pending"],
        "toDataURL", 3, <<>>)

\* GQReturn with qrHash kept in a field of the service instead of a local: a
\* call that hashed in the meantime has overwritten it
GQReturnSharedHash(r, dataURL) ==
  LET others == {d \in CallIds : calls[d].qrHash \notin {NoHash, r.qrHash}}
  IN Return(r, [ success |-> TRUE, dataURL |-> dataURL,
                 trackingUrl |-> Get(r.qrData, Key.trackingUrl).s,
                 qrHash |-> IF others = {} THEN r.qrHash
                            ELSE calls[CHOOSE d \in others : TRUE].qrHash ])

\* the success return of generateQR
GQReturn(r, dataURL) ==
  Return(r, [ success |-> TRUE, dataURL |-> dataURL,
              trackingUrl |-> Get(r.qrData, Key.trackingUrl).s,
              qrHash |-> r.qrHash ])

\* generateQR resumes with the result of generateQRWithAPI
GQAfterApi(r, apiResult) ==
  IF apiResult.success /\ "dataURL" \in DOMAIN apiResult
  THEN GQReturn(Log(r, "log", "QR code generated using API", ""), apiResult.dataURL)
  ELSE GQApiCatch(r, "API generation failed")

\* --- QRService.generateEnhancedQR ---

\* the catch clause of generateEnhancedQR
GECatch(r, message) ==
  Return(Log(r, "error", "Error generating enhanced QR code:", message),
         [success |-> FALSE, error |-> message])

\* generateEnhancedQR resumes with the result of generateBatchQR
GEAfterApi(r, apiResult) ==
  IF apiResult.success /\ "dataURL" \in DOMAIN apiResult
  THEN Return(r, [ success |-> TRUE, dataURL |-> apiResult.dataURL,
                   trackingUrl |-> Get(r.qrData, Key.trackingUrl).s,
                   qrHash |-> r.qrHash ])
  ELSE GECatch(r, "API generation failed")

\* --- QRService.generateTrackingQR ---

\* the catch clause of QRService.generateTrackingQR
TQCatch(r, message) == Return(r, [success |-> FALSE, error |-> message])

\* QRService.generateTrackingQR resumes with the result of
\* QRApiService.generateTrackingQR
TQAfterApi(r, apiResult) ==
  IF ~apiResult.success
  THEN Issue([r EXCEPT !.pc = "tq_local", !.tier[3] = "pending"], "toDataURL", 3, <<>>)
  ELSE Return(r, apiResult)

\* --- QRApiService.generateQRWithAPI ---

\* generateQRWithAPI returns to the method that awaits it
ApiReturn(r, apiResult) ==
  CASE r.op = "generateQR" -> GQAfterApi(r, apiResult)
    [] r.op = "generateEnhancedQR" -> GEAfterApi(r, apiResult)
    [] r.op = "generateTrackingQR" -> TQAfterApi(r, apiResult)
    [] OTHER -> Return(r, apiResult)

ApiUnavailable == [success |-> FALSE, error |-> "All QR code APIs are unavailable"]

\* generateQRWithAPI up to its first await: the HEAD probe of the primary URL
StartApi(r, data, options) ==
  LET opt == ApiDefaults(options)
      qrServerUrl == buildQRServerUrl(data, opt)
  IN Issue([r EXCEPT !.api = [ data |-> data, options |-> opt,
                               qrServerUrl |-> qrServerUrl,
                               quickChartUrl |-> <<>>, blob |-> NoImage ],
                     !.pc = "api_head", !.tier[1] = "pending"],
           "HEAD", 1, qrServerUrl)

\* the catch clause of the primary attempt: warn, then fetch the QuickChart URL
ApiCatch(r, message) ==
  LET quickChartUrl ==
        buildQuickChartUrl(r.api.data,
          [size |-> r.api.options.size, format |-> r.api.options.format])
  IN Issue([Log(r, "warn", "QR API failed, falling back to local generation:", message)
              EXCEPT !.api.quickChartUrl = quickChartUrl, !.pc = "api_qc_fetch",
                     !.tier[1] = "failed", !.tier[2] = "pending"],
           "GET", 2, quickChartUrl)

\* the inner catch clause: warn, then fall through to the failure return
ApiFallbackCatch(r, message) ==
  ApiReturn([Log(r, "warn", "QuickChart API also failed:", message)
               EXCEPT !.tier[2] = "failed"],
            ApiUnavailable)

\* ApiHeadOk racing the providers: the QuickChart URL is fetched while the
\* primary image is
ApiHeadOkRacing(r) ==
  LET quickChartUrl ==
        buildQuickChartUrl(r.api.data,
          [size |-> r.api.options.size, format |-> r.api.options.format])
  IN Issue(Issue([Settle(r, "HEAD", 1, "ok", "")
                    EXCEPT !.pc = "api_get", !.api.quickChartUrl = quickChartUrl,
                           !.tier[2] = "pending"],
                 "GET", 1, r.api.qrServerUrl),
           "GET", 2, quickChartUrl)

\* the HEAD probe answered with response.ok: the image is fetched
ApiHeadOk(r) ==
  Issue([Settle(r, "HEAD", 1, "ok", "") EXCEPT !.pc = "api_get"],
        "GET", 1, r.api.qrServerUrl)

\* ApiHeadNotOk fetching the image whatever the probe answered
ApiHeadNotOkFetches(r) ==
  Issue([Settle(r, "HEAD", 1, "status", "") EXCEPT !.pc = "api_get"],
        "GET", 1, r.api.qrServerUrl)

\* the HEAD probe answered without response.ok: throw
ApiHeadNotOk(r) ==
  ApiCatch(Settle(r, "HEAD", 1, "status", ""), "QR Server API not accessible")

\* the image response arrived, with any status: its body is read
ApiGetResolved(r, ok) ==
  Issue([Settle(r, "GET", 1, IF ok THEN "ok" ELSE "status", "")
           EXCEPT !.pc = "api_blob", !.api.blob = RemoteImage(r.api.qrServerUrl, ok)],
        "blob", 1, <<>>)

ApiBlobResolved(r) ==
  Issue([Settle(r, "blob", 1, "ok", "") EXCEPT !.pc = "api_read"],
        "readAsDataURL", 1, <<>>)

\* the primary attempt succeeds
ApiReaderLoaded(r) ==
  ApiReturn([Settle(r, "readAsDataURL", 1, "ok", "") EXCEPT !.tier[1] = "ok"],
            [ success |-> TRUE, url |-> r.api.qrServerUrl,
              dataURL |-> blobToDataURL(r.api.blob) ])

\* the QuickChart response arrived with response.ok: its body is read
QcFetchOk(r) ==
  Issue([Settle(r, "GET", 2, "ok", "")
           EXCEPT !.pc = "api_qc_blob",
                  !.api.blob = RemoteImage(r.api.quickChartUrl, TRUE)],
        "blob", 2, <<>>)

\* QcFetchNotOk answering the failure together with the body of the response
QcFetchNotOkKeepsBody(r) ==
  ApiReturn([Settle(r, "GET", 2, "status", "") EXCEPT !.tier[2] = "failed"],
            [ success |-> FALSE, error |-> "All QR code APIs are unavailable",
              dataURL |-> blobToDataURL(RemoteImage(r.api.quickChartUrl, FALSE)) ])

\* the QuickChart response arrived without response.ok: fall through
QcFetchNotOk(r) ==
  ApiReturn([Settle(r, "GET", 2, "status", "") EXCEPT !.tier[2] = "failed"],
            ApiUnavailable)

QcBlobResolved(r) ==
  Issue([Settle(r, "blob", 2, "ok", "") EXCEPT !.pc = "api_qc_read"],
        "readAsDataURL", 2, <<>>)

\* QcReaderLoaded answering the primary URL
QcReaderLoadedPrimaryUrl(r) ==
  ApiReturn([Settle(r, "readAsDataURL", 2, "ok", "") EXCEPT !.tier[2] = "ok"],
            [ success |-> TRUE, url |-> r.api.qrServerUrl,
              dataURL |-> blobToDataURL(r.api.blob) ])

\* the secondary attempt succeeds
QcReaderLoaded(r) ==
  ApiReturn([Settle(r, "readAsDataURL", 2, "ok", "") EXCEPT !.tier[2] = "ok"],
            [ success |-> TRUE, url |-> r.api.quickChartUrl,
              dataURL |-> blobToDataURL(r.api.blob) ])

\* --- entry points ---

\* generateQR up to its first await: the digest of the serialized payload
GQStart(r, data, now) ==
  LET r0 == [r EXCEPT !.op = "generateQR", !.data = data, !.now = now]
  IN IF Nullish(data) THEN GQCatch(r0, TypeErrorMessage)
     ELSE Issue([r0 EXCEPT !.qrData = EnrichedPayload(data, now),
                           !.qrString = Stringify(EnrichedPayload(data, now)),
                           !.pc = "gq_hash"],
                "digest", 0, <<>>)

\* generateQR after generateHash: the API is tried first
GQHashed(r) ==
  StartApi([Settle(r, "digest", 0, "ok", "") EXCEPT !.qrHash = generateHash(r.qrString)],
           r.qrString, BrandOptions)

GQLocalResolved(r) ==
  GQReturn(Log([Settle(r, "toDataURL", 3, "ok", "") EXCEPT !.tier[3] = "ok"],
               "log", "QR code generated locally", ""),
           blobToDataURL(LocalImage(r.qrString, BrandStyle)))

\* GQLocalRejected with no try block around the await: the error escapes
GQLocalRejectedUncaught(r, message) ==
  Reject([Settle(r, "toDataURL", 3, "reject", message) EXCEPT !.tier[3] = "failed"],
         message)

GQLocalRejected(r, message) ==
  GQCatch([Settle(r, "toDataURL", 3, "reject", message) EXCEPT !.tier[3] = "failed"],
          message)

\* generateEnhancedQR up to its first await
GEStart(r, data, options, now) ==
  LET r0 == [r EXCEPT !.op = "generateEnhancedQR", !.data = data, !.now = now,
                      !.options = EnhancedDefaults(options)]
  IN IF Nullish(data) THEN GECatch(r0, TypeErrorMessage)
     ELSE Issue([r0 EXCEPT !.qrData = EnrichedPayload(data, now),
                           !.qrString = Stringify(EnrichedPayload(data, now)),
                           !.pc = "ge_hash"],
                "digest", 0, <<>>)

\* QRApiService.generateBatchQR: its own payload, serialized, with the
\* brand options
generateBatchQR(r, batchData, now) ==
  StartApi(r, Stringify(BatchPayload(batchData, now)), BrandOptions)

\* generateEnhancedQR after generateHash: generateBatchQR if useAPI, else
\* QRCode.toDataURL
GEHashed(r, now) ==
  LET r1 == [Settle(r, "digest", 0, "ok", "") EXCEPT !.qrHash = generateHash(r.qrString)]
  IN IF r.options.useAPI
     THEN generateBatchQR(r1, BatchDataOf(r.data, r.qrData), now)
     ELSE Issue([r1 EXCEPT !.pc = "ge_local", !.tier[3] = "pending"],
                "toDataURL", 3, <<>>)

GELocalResolved(r) ==
  Return([Settle(r, "toDataURL", 3, "ok", "") EXCEPT !.tier[3] = "ok"],
         [ success |-> TRUE,
           dataURL |-> blobToDataURL(LocalImage(r.qrString, EnhancedStyle(r.options))),
           trackingUrl |-> Get(r.qrData, Key.trackingUrl).s,
           qrHash |-> r.qrHash ])

GELocalRejected(r, message) ==
  GECatch([Settle(r, "toDataURL", 3, "reject", message) EXCEPT !.tier[3] = "failed"],
          message)

\* QRService.generateTrackingQR, through QRApiService.generateTrackingQR
TQStart(r, trackingUrl) ==
  StartApi([r EXCEPT !.op = "generateTrackingQR", !.str = trackingUrl],
           trackingUrl, TrackingOptions)

TQLocalResolved(r) ==
  Return([Settle(r, "toDataURL", 3, "ok", "") EXCEPT !.tier[3] = "ok"],
         [ success |-> TRUE,
           dataURL |-> blobToDataURL(LocalImage(r.str, TrackingStyle)) ])

TQLocalRejected(r, message) ==
  TQCatch([Settle(r, "toDataURL", 3, "reject", message) EXCEPT !.tier[3] = "failed"],
          message)

\* parseQRData as a call: console.error in its catch clause, then the result
ParseCall(r, qrString) ==
  LET r0 == [r EXCEPT !.op = "parseQRData", !.str = qrString]
  IN IF parseThrows(qrString) # ""
     THEN Return(Log(r0, "error", "Error parsing QR data:", parseThrows(qrString)),
                 parseQRData(qrString))
     ELSE Return(r0, parseQRData(qrString))

\* ------------------------------------------------------------------------
\* Actions: the application calls a method, or the environment settles the
\* operation a call awaits
\* ------------------------------------------------------------------------

Put(c, r) == calls' = [calls EXCEPT ![c] = r] /\ UNCHANGED ui

At(c, pc) == calls[c].pc = pc

CallGenerateQR(c) ==
  /\ At(c, "idle")
  /\ \E data \in Payloads, now \in Clock : Put(c, GQStart(calls[c], data, now))

CallGenerateEnhancedQR(c) ==
  /\ At(c, "idle")
  /\ \E data \in Payloads, options \in EnhancedOptions, now \in Clock :
       Put(c, GEStart(calls[c], data, options, now))

CallGenerateTrackingQR(c) ==
  /\ At(c, "idle")
  /\ \E trackingUrl \in TrackingUrls : Put(c, TQStart(calls[c], trackingUrl))

CallGenerateQRWithAPI(c) ==
  /\ At(c, "idle")
  /\ \E data \in ApiData, options \in ApiOptions :
       Put(c, StartApi([calls[c] EXCEPT !.op = "generateQRWithAPI", !.str = data],
                       data, options))

CallParseQRData(c) ==
  /\ At(c, "idle")
  /\ \E qrString \in ParseInputs : Put(c, ParseCall(calls[c], qrString))

\* the application scans a QR code it generated: parseQRData is handed the
\* string that generateQR / generateEnhancedQR serialized, or the one
\* generateBatchQR serialized
ScanGenerated(c) ==
  /\ At(c, "done")
  /\ calls[c].op \in {"generateQR", "generateEnhancedQR"}
  /\ \E qrString \in {calls[c].qrString, calls[c].api.data} \ {<<>>} :
       Put(c, ParseCall(calls[c], qrString))

GQHashResolves(c) == At(c, "gq_hash") /\ Put(c, GQHashed(calls[c]))

GQHashRejects(c) ==
  /\ At(c, "gq_hash")
  /\ Put(c, GQCatch(Settle(calls[c], "digest", 0, "reject", DigestError), DigestError))

GEHashResolves(c) ==
  /\ At(c, "ge_hash")
  /\ \E now \in Clock : now >= calls[c].now /\ Put(c, GEHashed(calls[c], now))

GEHashRejects(c) ==
  /\ At(c, "ge_hash")
  /\ Put(c, GECatch(Settle(calls[c], "digest", 0, "reject", DigestError), DigestError))

HeadResolvesOk(c) == At(c, "api_head") /\ Put(c, ApiHeadOk(calls[c]))

HeadResolvesNotOk(c) == At(c, "api_head") /\ Put(c, ApiHeadNotOk(calls[c]))

HeadRejects(c) ==
  /\ At(c, "api_head")
  /\ Put(c, ApiCatch(Settle(calls[c], "HEAD", 1, "reject", FetchError), FetchError))

GetResolves(c) ==
  /\ At(c, "api_get")
  /\ \E ok \in BOOLEAN : Put(c, ApiGetResolved(calls[c], ok))

GetRejects(c) ==
  /\ At(c, "api_get")
  /\ Put(c, ApiCatch(Settle(calls[c], "GET", 1, "reject", FetchError), FetchError))

BlobResolves(c) == At(c, "api_blob") /\ Put(c, ApiBlobResolved(calls[c]))

BlobRejects(c) ==
  /\ At(c, "api_blob")
  /\ Put(c, ApiCatch(Settle(calls[c], "blob", 1, "reject", BlobError), BlobError))

ReaderLoads(c) == At(c, "api_read") /\ Put(c, ApiReaderLoaded(calls[c]))

ReaderFails(c) ==
  /\ At(c, "api_read")
  /\ Put(c, ApiCatch(Settle(calls[c], "readAsDataURL", 1, "reject", ReaderError),
                     ReaderError))

QcFetchResolvesOk(c) == At(c, "api_qc_fetch") /\ Put(c, QcFetchOk(calls[c]))

QcFetchResolvesNotOk(c) == At(c, "api_qc_fetch") /\ Put(c, QcFetchNotOk(calls[c]))

QcFetchRejects(c) ==
  /\ At(c, "api_qc_fetch")
  /\ Put(c, ApiFallbackCatch(Settle(calls[c], "GET", 2, "reject", FetchError),
                             FetchError))

QcBlobResolves(c) == At(c, "api_qc_blob") /\ Put(c, QcBlobResolved(calls[c]))

QcBlobRejects(c) ==
  /\ At(c, "api_qc_blob")
  /\ Put(c, ApiFallbackCatch(Settle(calls[c], "blob", 2, "reject", BlobError),
                             BlobError))

QcReaderLoads(c) == At(c, "api_qc_read") /\ Put(c, QcReaderLoaded(calls[c]))

QcReaderFails(c) ==
  /\ At(c, "api_qc_read")
  /\ Put(c, ApiFallbackCatch(
              Settle(calls[c], "readAsDataURL", 2, "reject", ReaderError), ReaderError))

GQLocalResolves(c) == At(c, "gq_local") /\ Put(c, GQLocalResolved(calls[c]))

GQLocalRejects(c) == At(c, "gq_local") /\ Put(c, GQLocalRejected(calls[c], LocalError))

GELocalResolves(c) == At(c, "ge_local") /\ Put(c, GELocalResolved(calls[c]))

GELocalRejects(c) == At(c, "ge_local") /\ Put(c, GELocalRejected(calls[c], LocalError))

TQLocalResolves(c) == At(c, "tq_local") /\ Put(c, TQLocalResolved(calls[c]))

TQLocalRejects(c) == At(c, "tq_local") /\ Put(c, TQLocalRejected(calls[c], LocalError))

\* one step of call c
Step(c) ==
  \/ CallGenerateQR(c)
  \/ CallGenerateEnhancedQR(c)
  \/ CallGenerateTrackingQR(c)
  \/ CallGenerateQRWithAPI(c)
  \/ CallParseQRData(c)
  \/ ScanGenerated(c)
  \/ GQHashResolves(c)
  \/ GQHashRejects(c)
  \/ GEHashResolves(c)
  \/ GEHashRejects(c)
  \/ HeadResolvesOk(c)
  \/ HeadResolvesNotOk(c)
  \/ HeadRejects(c)
  \/ GetResolves(c)
  \/ GetRejects(c)
  \/ BlobResolves(c)
  \/ BlobRejects(c)
  \/ ReaderLoads(c)
  \/ ReaderFails(c)
  \/ QcFetchResolvesOk(c)
  \/ QcFetchResolvesNotOk(c)
  \/ QcFetchRejects(c)
  \/ QcBlobResolves(c)
  \/ QcBlobRejects(c)
  \/ QcReaderLoads(c)
  \/ QcReaderFails(c)
  \/ GQLocalResolves(c)
  \/ GQLocalRejects(c)
  \/ GELocalResolves(c)
  \/ GELocalRejects(c)
  \/ TQLocalResolves(c)
  \/ TQLocalRejects(c)

\* one call at a time: the application makes call c1 and awaits it
Next == Step("c1")

Spec == Init /\ [][Next]_vars

\* ------------------------------------------------------------------------
\* QRCodeDisplay: the component, its handleRegenerate and the call it awaits
\* ------------------------------------------------------------------------

\* the batchData prop: absent, or a batch
UIBatchData ==
  { JUndef,
    JObj(<< <<Key.batchId, JStr(<<"B","2">>)>>,
            <<Key.type, JStr(<<"p","r","o","c","e","s","s","i","n","g">>)>>,
            <<Key.participant, JStr(<<"A","l","i">>)>> >>) }

\* what the colour pickers and the size slider of the panel are set to
UIChoices ==
  [ color |-> {Lit.green},
    backgroundColor |-> {Lit.white},
    size |-> {300, 200} ]

\* the computed property name of handleRegenerate
RoleKey(type) ==
  IF type = JStr(Lit.collection) THEN Key.collector
  ELSE IF type = JStr(<<"q","u","a","l","i","t","y","_","t","e","s","t">>) THEN Key.tester
  ELSE IF type = JStr(<<"p","r","o","c","e","s","s","i","n","g">>) THEN Key.processor
  ELSE Key.manufacturer

\* the first argument handleRegenerate builds for generateEnhancedQR
RegenerateData(u) ==
  JObj(Defined(<< <<Key.type, Get(u.batchData, Key.type)>>,
                  <<Key.batchId, Get(u.batchData, Key.batchId)>>,
                  <<Key.eventId, JStr(u.qrData.eventId)>>,
                  <<Key.herbSpecies, Get(u.batchData, Key.herbSpecies)>>,
                  <<RoleKey(Get(u.batchData, Key.type)),
                    Get(u.batchData, Key.participant)>> >>))

\* the second argument
RegenerateOptions(u) ==
  [ size |-> u.customization.size, useAPI |-> TRUE,
    customization |-> [ color |-> u.customization.color,
                        backgroundColor |-> u.customization.backgroundColor ] ]

\* handleRegenerate after the await without its finally block: isRegenerating
\* is reset only where the result is handled
RegenerateSettledNoFinally(u, r) ==
  IF r.pc = "done" /\ r.result.success /\ "dataURL" \in DOMAIN r.result
  THEN [u EXCEPT !.currentQR = r.result.dataURL, !.isRegenerating = FALSE]
  ELSE u

\* handleRegenerate after the await with setCurrentQR(result.dataURL) outside
\* the test of the result: a failure blanks the image
RegenerateSettledShowsAnyResult(u, r) ==
  IF r.pc = "rejected"
  THEN [u EXCEPT !.console = Append(@, "Failed to regenerate QR code:"),
                 !.isRegenerating = FALSE]
  ELSE IF r.result.success /\ "dataURL" \in DOMAIN r.result
  THEN [u EXCEPT !.currentQR = r.result.dataURL, !.isRegenerating = FALSE]
  ELSE [u EXCEPT !.currentQR = blobToDataURL(NoImage), !.isRegenerating = FALSE]

\* handleRegenerate after the await: the result is shown if it is a success
\* with a dataURL, a rejection is logged, and finally isRegenerating is reset
RegenerateSettled(u, r) ==
  IF r.pc = "rejected"
  THEN [u EXCEPT !.console = Append(@, "Failed to regenerate QR code:"),
                 !.isRegenerating = FALSE]
  ELSE IF r.result.success /\ "dataURL" \in DOMAIN r.result
  THEN [u EXCEPT !.currentQR = r.result.dataURL, !.isRegenerating = FALSE]
  ELSE [u EXCEPT !.isRegenerating = FALSE]

\* handleRegenerate up to its await: nothing without batchData; the button is
\* disabled while isRegenerating
HandleRegenerate(c) ==
  IF Nullish(ui.batchData) THEN UNCHANGED vars
  ELSE /\ ~ui.isRegenerating
       /\ calls[c].pc \in {"idle", "done"}
       /\ \E now \in Clock :
            calls' = [calls EXCEPT
                        ![c] = GEStart(IdleCall, RegenerateData(ui),
                                       RegenerateOptions(ui), now)]
       /\ ui' = [ui EXCEPT !.isRegenerating = TRUE]

\* the promise of generateEnhancedQR has settled: handleRegenerate resumes
RegenerateResumes(c) ==
  /\ ui.isRegenerating
  /\ calls[c].op = "generateEnhancedQR" /\ calls[c].pc \in {"done", "rejected"}
  /\ ui' = RegenerateSettled(ui, calls[c])
  /\ UNCHANGED calls

\* setCustomization(prev => ({ ...prev, [field]: value }))
SetCustomization ==
  /\ ~Nullish(ui.batchData)
  /\ \E field \in DOMAIN UIChoices : \E value \in UIChoices[field] :
       ui' = [ui EXCEPT !.customization[field] = value]
  /\ UNCHANGED calls

InitUI ==
  /\ calls = [c \in CallIds |-> IdleCall]
  /\ ui \in {MountedUI(batchData) : batchData \in UIBatchData}

NextUI ==
  \/ HandleRegenerate("c1")
  \/ RegenerateResumes("c1")
  \/ SetCustomization
  \/ GEHashResolves("c1")
  \/ GEHashRejects("c1")
  \/ HeadResolvesOk("c1")
  \/ HeadResolvesNotOk("c1")
  \/ HeadRejects("c1")
  \/ GetResolves("c1")
  \/ GetRejects("c1")
  \/ BlobResolves("c1")
  \/ BlobRejects("c1")
  \/ ReaderLoads("c1")
  \/ ReaderFails("c1")
  \/ QcFetchResolvesOk("c1")
  \/ QcFetchResolvesNotOk("c1")
  \/ QcFetchRejects("c1")
  \/ QcBlobResolves("c1")
  \/ QcBlobRejects("c1")
  \/ QcReaderLoads("c1")
  \/ QcReaderFails("c1")

\* the continuation of an await runs once the awaited promise has settled
SpecUI == InitUI /\ [][NextUI]_vars /\ WF_vars(RegenerateResumes("c1"))

\* ------------------------------------------------------------------------
\* Two calls in flight: the application makes a second call before the first
\* has settled, and the environment settles their operations in any order
\* ------------------------------------------------------------------------

\* what each of the two calls is handed
InterleavedPayload(c) ==
  IF c = "c1" THEN Payload(Lit.collection, <<"B","1">>, <<"E","1">>, <<"?">>, <<"?">>)
  ELSE Payload(Lit.collection, <<"b",QUOTE>>, <<"e",BSLASH,"/">>, <<"x",":","y">>, <<"A","\n">>)

InterleavedStrings(c) ==
  IF c = "c1" THEN {<<"a","b","c","1","2","3">>, Lit.null}
  ELSE {Stringify(EnrichedPayload(InterleavedPayload(c), 9)), <<" ","{"," ","}"," ">>}

\* the first call reads the first instant of the clock, the second the last
InterleavedNow(c) == IF c = "c1" THEN 9 ELSE 9 + MaxClock

InterleavedGenerateQR(c) ==
  /\ At(c, "idle")
  /\ Put(c, GQStart(calls[c], InterleavedPayload(c), InterleavedNow(c)))

InterleavedParseQRData(c) ==
  /\ At(c, "idle")
  /\ \E qrString \in InterleavedStrings(c) : Put(c, ParseCall(calls[c], qrString))

InterleavedStep(c) ==
  \/ InterleavedGenerateQR(c)
  \/ InterleavedParseQRData(c)
  \/ GQHashResolves(c)
  \/ GQHashRejects(c)
  \/ HeadResolvesOk(c)
  \/ HeadResolvesNotOk(c)
  \/ HeadRejects(c)
  \/ GetResolves(c)
  \/ GetRejects(c)
  \/ BlobResolves(c)
  \/ BlobRejects(c)
  \/ ReaderLoads(c)
  \/ ReaderFails(c)
  \/ QcFetchResolvesOk(c)
  \/ QcFetchResolvesNotOk(c)
  \/ QcFetchRejects(c)
  \/ QcBlobResolves(c)
  \/ QcBlobRejects(c)
  \/ QcReaderLoads(c)
  \/ QcReaderFails(c)
  \/ GQLocalResolves(c)
  \/ GQLocalRejects(c)

NextInterleaved == \E c \in CallIds : InterleavedStep(c)

SpecInterleaved == Init /\ [][NextInterleaved]_vars

\* ------------------------------------------------------------------------
\* Properties
\* ------------------------------------------------------------------------

Finished(c, op) == calls[c].op = op /\ calls[c].pc = "done"

\* the three tiers of call c ended as t1, t2, t3
Tiers(c, t1, t2, t3) == calls[c].tier = <<t1, t2, t3>>

\* the message the local renderer rejected with
LocalRejection(c) ==
  LET i == CHOOSE j \in 1..Len(calls[c].trace) :
             /\ calls[c].trace[j].ev = "settle"
             /\ calls[c].trace[j].op = "toDataURL"
             /\ calls[c].trace[j].res = "reject"
  IN calls[c].trace[i].message

\* C1 as the spec states it: when the primary provider, the secondary provider
\* and the local renderer all fail, generateQR returns exactly
\* {success: false, error: "All QR code APIs are unavailable"}
C1_ExhaustionMessage ==
  \A c \in CallIds :
    Finished(c, "generateQR") /\ Tiers(c, "failed", "failed", "failed")
      => calls[c].result = [success |-> FALSE, error |-> "All QR code APIs are unavailable"]

\* C1 amended: when all three tiers fail, generateQR returns exactly
\* {success: false, error: m}, m the message of the error the local renderer
\* threw, and no dataURL
C1_ExhaustionSurfacesRendererError ==
  \A c \in CallIds :
    Finished(c, "generateQR") /\ Tiers(c, "failed", "failed", "failed")
      => calls[c].result = [success |-> FALSE, error |-> LocalRejection(c)]

C1_Witness ==
  \E c \in CallIds :
    Finished(c, "generateQR") /\ Tiers(c, "failed", "failed", "failed")

\* a call that renders locally without trying the providers:
\* generateEnhancedQR with useAPI false
LocalOnly(c) == "useAPI" \in DOMAIN calls[c].options /\ ~calls[c].options.useAPI

\* C2: the secondary provider is requested only after the primary attempt has
\* failed, the local renderer is invoked only after the secondary attempt has
\* failed, no two operations or tiers are outstanding at once, and no tier is
\* attempted after an earlier tier has succeeded
C2_SequentialFallback ==
  \A c \in CallIds :
    /\ Cardinality(calls[c].outstanding) <= 1
    /\ Cardinality({t \in 1..3 : calls[c].tier[t] = "pending"}) <= 1
    /\ \A p \in calls[c].outstanding : p[2] # 0 => calls[c].tier[p[2]] = "pending"
    /\ calls[c].tier[2] # "none" => calls[c].tier[1] = "failed"
    /\ calls[c].tier[3] # "none" /\ ~LocalOnly(c)
         => calls[c].tier[1] = "failed" /\ calls[c].tier[2] = "failed"
    /\ \A t \in 1..3 : calls[c].tier[t] = "ok"
         => \A u \in 1..3 : u > t => calls[c].tier[u] = "none"

C2_Witness ==
  \E c \in CallIds : Finished(c, "generateQR") /\ Tiers(c, "failed", "failed", "ok")

\* C3: generateQR with a payload carrying eventId E, both providers failing and
\* the local renderer succeeding returns success, no url, the locally drawn
\* image of the serialized payload, and trackingUrl <origin>/track/E, whatever
\* trackingUrl the caller supplied
C3_LocalFallbackResult ==
  \A c \in CallIds :
    /\ Finished(c, "generateQR") /\ Tiers(c, "failed", "failed", "ok")
    /\ Get(calls[c].data, Key.eventId).k = "string"
    => /\ DOMAIN calls[c].result = {"success", "dataURL", "trackingUrl", "qrHash"}
       /\ calls[c].result.success
       /\ calls[c].result.dataURL.image.by = "local"
       /\ calls[c].result.dataURL.image.text = calls[c].qrString
       /\ calls[c].result.trackingUrl
            = baseUrl \o Lit.track \o Get(calls[c].data, Key.eventId).s
       /\ Get(JsonParse(calls[c].qrString).val, Key.trackingUrl)
            = JStr(calls[c].result.trackingUrl)

C3_Witness ==
  \E c \in CallIds :
    /\ Finished(c, "generateQR") /\ Tiers(c, "failed", "failed", "ok")
    /\ Get(calls[c].data, Key.eventId).k = "string"
    /\ Get(calls[c].data, Key.trackingUrl).k = "string"

\* an operation of call c was rejected by the environment
SomeRejection(c) ==
  \E i \in 1..Len(calls[c].trace) : calls[c].trace[i].res = "reject"

\* C4: no call of generateQR, generateEnhancedQR, generateTrackingQR,
\* generateQRWithAPI or parseQRData rejects: each ends with a result carrying a
\* success flag, whatever fails
C4_NoEscape ==
  \A c \in CallIds :
    /\ calls[c].pc # "rejected"
    /\ calls[c].pc = "done" =>
         /\ "success" \in DOMAIN calls[c].result
         /\ ~calls[c].result.success => "error" \in DOMAIN calls[c].result

C4_Witness ==
  \E c \in CallIds :
    /\ Finished(c, "generateQR") /\ SomeRejection(c)
    /\ Tiers(c, "failed", "failed", "failed")
    /\ ~calls[c].result.success

\* C5 as the spec states it: when tier 1 failed and tier 2 succeeded, the
\* result generate returns has the shape {success, dataURL, url, trackingUrl,
\* qrHash} and its url is the tier-2 request URL
C5_ResultCarriesTier2Url ==
  \A c \in CallIds :
    /\ calls[c].pc = "done" /\ calls[c].op \in {"generateQR", "generateEnhancedQR"}
    /\ Tiers(c, "failed", "ok", "none")
    => /\ DOMAIN calls[c].result
            = {"success", "dataURL", "url", "trackingUrl", "qrHash"}
       /\ calls[c].result.url = calls[c].api.quickChartUrl

\* C5 amended: when tier 1 failed and tier 2 succeeded, generateQRWithAPI (and
\* generateTrackingQR, which hands its result on) returns {success: true, url,
\* dataURL} with url the tier-2 request URL, never the tier-1 URL; generateQR
\* and generateEnhancedQR return {success: true, dataURL, trackingUrl, qrHash}
\* with the image fetched from the tier-2 URL and no url
C5_Tier2Result ==
  \A c \in CallIds :
    calls[c].pc = "done" /\ Tiers(c, "failed", "ok", "none")
    => /\ calls[c].op \in {"generateQRWithAPI", "generateTrackingQR"}
            => /\ DOMAIN calls[c].result = {"success", "url", "dataURL"}
               /\ calls[c].result.success
               /\ calls[c].result.url = calls[c].api.quickChartUrl
               /\ calls[c].result.url # calls[c].api.qrServerUrl
               /\ calls[c].result.dataURL.image.url = calls[c].api.quickChartUrl
       /\ calls[c].op \in {"generateQR", "generateEnhancedQR"}
            => /\ DOMAIN calls[c].result
                    = {"success", "dataURL", "trackingUrl", "qrHash"}
               /\ calls[c].result.success
               /\ calls[c].result.dataURL.image.url = calls[c].api.quickChartUrl
               /\ calls[c].result.dataURL.image.url # calls[c].api.qrServerUrl

C5_Witness ==
  \E c \in CallIds : Finished(c, "generateQR") /\ Tiers(c, "failed", "ok", "none")

\* the three required fields of a parsed payload are present and non-empty
HasRequired(jv) ==
  Truthy(Get(jv, Key.batchId)) /\ Truthy(Get(jv, Key.eventId)) /\ Truthy(Get(jv, Key.type))

\* C6 as the spec states it: every successful result of parseQRData carries
\* data whose batchId, eventId and type are all present and non-empty
C6_AllRequiredFields ==
  \A c \in CallIds :
    Finished(c, "parseQRData") /\ calls[c].result.success
      => HasRequired(calls[c].result.data)

\* C6 amended: every successful result of parseQRData carries an object whose
\* eventId is present and non-empty, and a candidate without a non-empty
\* eventId is reported as a failure; batchId and type are present and
\* non-empty too unless the input is JSON text that leaves them out
C6_EventIdRequired ==
  \A c \in CallIds :
    Finished(c, "parseQRData") =>
      /\ calls[c].result.success
           => /\ calls[c].result.data.k = "object"
              /\ Truthy(Get(calls[c].result.data, Key.eventId))
              /\ ~HasRequired(calls[c].result.data)
                   => /\ JsonParse(calls[c].str).ok
                      /\ calls[c].result.data = JsonParse(calls[c].str).val
      /\ ~Truthy(Get(LocalCandidate(calls[c].str), Key.eventId))
           => ~calls[c].result.success

C6_Witness ==
  \E c \in CallIds :
    /\ Finished(c, "parseQRData") /\ calls[c].result.success
    /\ ~Truthy(Get(calls[c].result.data, Key.batchId))
    /\ ~Truthy(Get(calls[c].result.data, Key.type))

\* the object {eventId: t, batchId: t, type: "direct_id"}, in any key order
IsDirectId(jv, t) ==
  /\ jv.k = "object" /\ Len(jv.v) = 3
  /\ Get(jv, Key.eventId) = JStr(t)
  /\ Get(jv, Key.batchId) = JStr(t)
  /\ Get(jv, Key.type) = JStr(Lit.direct_id)

\* C7 as the spec states it: every input that is not valid JSON, the empty and
\* the whitespace-only string included, parses to {success: true, data:
\* {eventId: t, batchId: t, type: "direct_id"}}, t the trimmed input
C7_EveryNonJsonDegrades ==
  \A c \in CallIds :
    Finished(c, "parseQRData") /\ ~JsonParse(calls[c].str).ok
      => /\ DOMAIN calls[c].result = {"success", "data"}
         /\ calls[c].result.success
         /\ IsDirectId(calls[c].result.data, Trim(calls[c].str))

\* C7 amended: an input that is not valid JSON and whose trimmed text t is not
\* empty parses to {success: true, data: {eventId: t, batchId: t, type:
\* "direct_id"}}; an empty or whitespace-only input is reported as
\* {success: false, error: "Invalid QR code format - missing event ID"}
C7_NonJsonDegrades ==
  \A c \in CallIds :
    Finished(c, "parseQRData") /\ ~JsonParse(calls[c].str).ok
      => IF Trim(calls[c].str) # <<>>
         THEN /\ DOMAIN calls[c].result = {"success", "data"}
              /\ calls[c].result.success
              /\ IsDirectId(calls[c].result.data, Trim(calls[c].str))
         ELSE calls[c].result
                = [success |-> FALSE,
                   error |-> "Invalid QR code format - missing event ID"]

C7_Witness ==
  \E c \in CallIds :
    /\ Finished(c, "parseQRData") /\ ~JsonParse(calls[c].str).ok
    /\ Trim(calls[c].str) # <<>> /\ Trim(calls[c].str) # calls[c].str
    /\ calls[c].result.success

\* C8: every input that is valid JSON and has no non-empty eventId (an object
\* without one, null, a number, a string, an array) parses to {success: false,
\* error: "Invalid QR code format - missing event ID"}
C8_JsonWithoutEventIdRejected ==
  \A c \in CallIds :
    /\ Finished(c, "parseQRData") /\ JsonParse(calls[c].str).ok
    /\ ~Truthy(Get(JsonParse(calls[c].str).val, Key.eventId))
    => calls[c].result
         = [success |-> FALSE, error |-> "Invalid QR code format - missing event ID"]

\* a payload whose batchId, eventId and type are non-empty strings
ValidPayload(jv) ==
  /\ jv.k = "object"
  /\ \A key \in {Key.batchId, Key.eventId, Key.type} :
       Get(jv, key).k = "string" /\ Get(jv, key).s # <<>>

\* C9: for a payload with non-empty batchId, eventId and type, parseQRData of
\* the string generate serialized succeeds and gives back the same batchId,
\* eventId and type
C9_RoundTrip ==
  \A c \in CallIds :
    /\ Finished(c, "parseQRData") /\ ValidPayload(calls[c].data)
    /\ calls[c].str \in {calls[c].qrString, calls[c].api.data}
    => /\ calls[c].result.success
       /\ \A key \in {Key.batchId, Key.eventId, Key.type} :
            Get(calls[c].result.data, key) = Get(calls[c].data, key)

C9_Witness ==
  \E c \in CallIds :
    /\ Finished(c, "parseQRData") /\ ValidPayload(calls[c].data)
    /\ calls[c].str = calls[c].qrString
    /\ \E i \in 1..Len(Get(calls[c].data, Key.batchId).s) :
         Get(calls[c].data, Key.batchId).s[i] = QUOTE
    /\ calls[c].result.success

\* the string handed to the tier that drew the image of a data URL
RenderedFrom(c, dataURL) ==
  IF dataURL.image.by = "local" THEN dataURL.image.text ELSE calls[c].api.data

\* C10: in every successful result of generateQR and generateEnhancedQR, qrHash
\* is the SHA-256 digest of the very string handed to the tier that rendered
\* the returned image
C10_HashOfRenderedString ==
  \A c \in CallIds :
    /\ calls[c].pc = "done" /\ calls[c].op \in {"generateQR", "generateEnhancedQR"}
    /\ calls[c].result.success
    => calls[c].result.qrHash = generateHash(RenderedFrom(c, calls[c].result.dataURL))

\* an operation op of tier t of call c settled with res
Settled(c, op, t, res) ==
  \E i \in 1..Len(calls[c].trace) :
    /\ calls[c].trace[i].ev = "settle" /\ calls[c].trace[i].op = op
    /\ calls[c].trace[i].tier = t /\ calls[c].trace[i].res = res

\* C11: a remote tier succeeds only if the image transfer answered with a 2xx
\* status: once the GET of the primary URL answers with another status, tier 1
\* has failed, and no successful result carries the body of such a response
C11_Non2xxIsTierFailure ==
  \A c \in CallIds :
    /\ Settled(c, "GET", 1, "status") => calls[c].tier[1] = "failed"
    /\ calls[c].pc = "done" /\ calls[c].result.success
         /\ "dataURL" \in DOMAIN calls[c].result
         /\ calls[c].result.dataURL.image.by = "remote"
       => calls[c].result.dataURL.image.ok

\* the positions of the network requests call c issued to the provider of tier t
NetCalls(c, t) ==
  {i \in 1..Len(calls[c].trace) :
     /\ calls[c].trace[i].ev = "call" /\ calls[c].trace[i].tier = t
     /\ calls[c].trace[i].op \in {"HEAD", "GET"}}

\* the request at position i of the trace of call c follows a HEAD probe of the
\* same provider that answered with a success status
Probed(c, i) ==
  \E j \in 1..(i - 1) :
    /\ calls[c].trace[j].ev = "settle" /\ calls[c].trace[j].op = "HEAD"
    /\ calls[c].trace[j].tier = calls[c].trace[i].tier
    /\ calls[c].trace[j].res = "ok"

\* C12 as the spec states it: for each remote provider, the full transfer is
\* requested only after a HEAD probe of that provider answered with a success
\* status, and a successful remote path is exactly two requests to its provider
C12_ProbeBeforeFetch ==
  \A c \in CallIds : \A t \in 1..2 :
    /\ \A i \in NetCalls(c, t) : calls[c].trace[i].op = "GET" => Probed(c, i)
    /\ calls[c].tier[t] = "ok" => Cardinality(NetCalls(c, t)) = 2

\* C12 amended: the primary provider is probed with HEAD and its image is
\* requested only after the probe answered with a success status, so a
\* successful primary path is two requests (HEAD, then GET); the secondary
\* provider is never probed: its one request is the GET of the image, and a
\* successful secondary path is that GET answering with a success status
C12_PrimaryProbedSecondaryDirect ==
  \A c \in CallIds :
    /\ \A i \in NetCalls(c, 1) : calls[c].trace[i].op = "GET" => Probed(c, i)
    /\ calls[c].tier[1] = "ok" =>
         /\ Cardinality(NetCalls(c, 1)) = 2
         /\ \E i, j \in NetCalls(c, 1) :
              i < j /\ calls[c].trace[i].op = "HEAD" /\ calls[c].trace[j].op = "GET"
    /\ \A i \in NetCalls(c, 2) : calls[c].trace[i].op = "GET"
    /\ Cardinality(NetCalls(c, 2)) <= 1
    /\ calls[c].tier[2] = "ok" =>
         Cardinality(NetCalls(c, 2)) = 1 /\ Settled(c, "GET", 2, "ok")

C12_Witness ==
  \E c \in CallIds :
    /\ Finished(c, "generateQRWithAPI") /\ calls[c].tier[1] = "ok"
    /\ Cardinality(NetCalls(c, 1)) = 2

\* the characters PctHex encodes
PctChars ==
  { " ", "!", QUOTE, "#", "$", "%", "&", "'", "(", ")", "*", "+", ",", "-", ".",
    "/", ":", ";", "<", "=", ">", "?", "@", "[", BSLASH, "]", "^", "_", "{", "|",
    "}", "~", "\n", "\t", "\r", "\f" }

\* the character a %XX escape stands for
HexToChar(hex) == CHOOSE ch \in PctChars : PctHex(ch) = hex

\* one standard URL-decoding of a query parameter, as a provider does it: %XX
\* becomes its character, + becomes a space, anything else stands for itself
UrlDecode(str) ==
  Flatten([i \in 1..Len(str) |->
    IF str[i] = "%" /\ i + 2 <= Len(str)
    THEN <<HexToChar(<<str[i + 1], str[i + 2]>>)>>
    ELSE IF (i > 1 /\ str[i - 1] = "%") \/ (i > 2 /\ str[i - 2] = "%") THEN <<>>
    ELSE IF str[i] = "+" THEN <<" ">>
    ELSE <<str[i]>>])

\* the text of the query parameter name of url, as it travels
QueryParam(url, name) ==
  LET start == (CHOOSE p \in 1..Len(url) :
                  /\ url[p] \in {"?", "&"}
                  /\ SubSeq(url, p + 1, p + Len(name) + 1) = name \o <<"=">>)
                + Len(name) + 2
      ends == {q \in start..Len(url) : url[q] = "&"} \cup {Len(url) + 1}
      end == CHOOSE q \in ends : \A q2 \in ends : q <= q2
  IN SubSeq(url, start, end - 1)

\* C13: the data / text query parameter of every request URL carries the data
\* string percent-encoded once: one URL-decoding of it gives the data string
C13_SingleEncoding ==
  \A c \in CallIds :
    /\ calls[c].api.qrServerUrl # <<>>
         => UrlDecode(QueryParam(calls[c].api.qrServerUrl, Param.data)) = calls[c].api.data
    /\ calls[c].api.quickChartUrl # <<>>
         => UrlDecode(QueryParam(calls[c].api.quickChartUrl, Param.text)) = calls[c].api.data

\* C14: generateTrackingQR renders with size 200, error correction M and
\* margin 1 in whichever tier draws the image: the request to the primary
\* provider carries these three values, and so does the style handed to the
\* local renderer
C14_TrackingPreset ==
  \A c \in CallIds :
    calls[c].op = "generateTrackingQR" =>
      /\ calls[c].api.qrServerUrl # <<>> =>
           /\ QueryParam(calls[c].api.qrServerUrl, Param.size) = SizeParam(200)
           /\ QueryParam(calls[c].api.qrServerUrl, Param.ecc) = <<"M">>
           /\ QueryParam(calls[c].api.qrServerUrl, Param.margin) = <<"1">>
      /\ calls[c].pc = "done" /\ calls[c].tier[3] = "ok" =>
           /\ calls[c].result.dataURL.image.style.width = 200
           /\ calls[c].result.dataURL.image.style.errorCorrectionLevel = <<"M">>
           /\ calls[c].result.dataURL.image.style.margin = 1

GenerateOps ==
  {"generateQR", "generateEnhancedQR", "generateTrackingQR", "generateQRWithAPI"}

\* C15: every result of generateQR, generateEnhancedQR, generateTrackingQR and
\* generateQRWithAPI is either a success with a data URL of an image and no
\* error, or a failure with an error string and no data URL
C15_ResultShape ==
  \A c \in CallIds :
    calls[c].pc = "done" /\ calls[c].op \in GenerateOps =>
      IF calls[c].result.success
      THEN /\ "dataURL" \in DOMAIN calls[c].result
           /\ calls[c].result.dataURL.scheme = "data"
           /\ calls[c].result.dataURL.image.by \in {"remote", "local"}
           /\ "error" \notin DOMAIN calls[c].result
      ELSE /\ "error" \in DOMAIN calls[c].result
           /\ calls[c].result.error # ""
           /\ "dataURL" \notin DOMAIN calls[c].result

C15_Witness ==
  \E c \in CallIds :
    /\ Finished(c, "generateTrackingQR") /\ ~calls[c].result.success
    /\ Tiers(c, "failed", "failed", "failed")

\* the string generateQR serializes from the arguments of call c alone
OwnString(c) == Stringify(EnrichedPayload(calls[c].data, calls[c].now))

\* the image a successful generateQR call c returns, from its own arguments and
\* the answers to its own requests: drawn locally from its own string, or
\* fetched from the URL a provider was handed for its own string
OwnImage(c, image) ==
  CASE calls[c].tier[1] = "ok" ->
         image = RemoteImage(buildQRServerUrl(OwnString(c), BrandOptions),
                             Settled(c, "GET", 1, "ok"))
    [] calls[c].tier[2] = "ok" ->
         image = RemoteImage(buildQuickChartUrl(OwnString(c),
                               [size |-> 300, format |-> Lit.png]), TRUE)
    [] OTHER -> image = LocalImage(OwnString(c), BrandStyle)

\* C16: with two calls in flight and their operations settled in any order,
\* each call returns what its own arguments and the answers to its own
\* operations determine: a generateQR call its own trackingUrl, the hash of its
\* own serialized payload and the image of that string, a parseQRData call the
\* parse of its own input
C16_NoInterference ==
  \A c \in CallIds :
    calls[c].pc = "done" =>
      /\ calls[c].op = "parseQRData" => calls[c].result = parseQRData(calls[c].str)
      /\ calls[c].op = "generateQR" /\ calls[c].result.success =>
           /\ calls[c].result.trackingUrl = TrackingUrlOf(calls[c].data)
           /\ calls[c].result.qrHash = generateHash(OwnString(c))
           /\ OwnImage(c, calls[c].result.dataURL.image)
      /\ calls[c].op = "generateQR" /\ ~calls[c].result.success =>
           calls[c].result.error \in {DigestError, LocalError}
      /\ \A i \in 1..Len(calls[c].trace) :
           calls[c].trace[i].ev = "call" /\ calls[c].trace[i].op \in {"HEAD", "GET"}
             => calls[c].trace[i].url
                  \in { buildQRServerUrl(OwnString(c), BrandOptions),
                        buildQuickChartUrl(OwnString(c),
                          [size |-> 300, format |-> Lit.png]) }

\* both calls were in flight together, and both returned an image
C16_Witness ==
  /\ \A c \in CallIds : Finished(c, "generateQR") /\ calls[c].result.success
  /\ calls["c1"].tier[1] = "ok" /\ calls["c2"].tier[3] = "ok"
  /\ calls["c1"].result.qrHash # calls["c2"].result.qrHash

\* C17: generateEnhancedQR called with useAPI true and a size, color and
\* backgroundColor builds the request to the primary provider with that size,
\* color and backgroundColor, and the local renderer, when it draws, is handed
\* the same style
C17_CallerStyleHonoured ==
  \A c \in CallIds :
    calls[c].op = "generateEnhancedQR" =>
      /\ calls[c].options.useAPI /\ calls[c].api.qrServerUrl # <<>>
           /\ DOMAIN calls[c].options.customization = {"color", "backgroundColor"}
         => /\ QueryParam(calls[c].api.qrServerUrl, Param.size)
                 = SizeParam(calls[c].options.size)
            /\ QueryParam(calls[c].api.qrServerUrl, Param.color)
                 = calls[c].options.customization.color
            /\ QueryParam(calls[c].api.qrServerUrl, Param.bgcolor)
                 = calls[c].options.customization.backgroundColor
      /\ calls[c].pc = "done" /\ calls[c].tier[3] = "ok"
           /\ DOMAIN calls[c].options.customization = {"color", "backgroundColor"}
         => /\ calls[c].result.dataURL.image.style.width = calls[c].options.size
            /\ calls[c].result.dataURL.image.style.dark
                 = calls[c].options.customization.color
            /\ calls[c].result.dataURL.image.style.light
                 = calls[c].options.customization.backgroundColor

\* C18: generateEnhancedQR called with useAPI true, both providers failing,
\* invokes the local renderer, and returns success with the locally drawn
\* image when the renderer succeeds
C18_EnhancedReachesLocal ==
  \A c \in CallIds :
    /\ Finished(c, "generateEnhancedQR") /\ calls[c].options.useAPI
    /\ calls[c].tier[1] = "failed" /\ calls[c].tier[2] = "failed"
    => /\ calls[c].tier[3] # "none"
       /\ calls[c].tier[3] = "ok" =>
            /\ calls[c].result.success
            /\ calls[c].result.dataURL.image.by = "local"

\* the console.warn entries of call c
Warnings(c) ==
  Cardinality({i \in 1..Len(calls[c].console) : calls[c].console[i].level = "warn"})

\* the failures of call c that a further attempt or a result follows: the
\* primary provider failed, the secondary provider failed, the remote pipeline
\* failed and the local renderer was called in its place
IntermediateFailures(c) ==
  (IF calls[c].tier[1] = "failed" THEN 1 ELSE 0)
  + (IF calls[c].tier[2] = "failed" THEN 1 ELSE 0)
  + (IF calls[c].tier[3] # "none" /\ ~LocalOnly(c) THEN 1 ELSE 0)

\* C19: every failed tier that a further attempt or a result follows has its
\* one console.warn entry by the time the next tier is attempted
C19_EveryFailureLogged ==
  \A c \in CallIds :
    calls[c].op \in GenerateOps => Warnings(c) = IntermediateFailures(c)

\* C20: while isRegenerating is set, batchData is present and the
\* generateEnhancedQR call of handleRegenerate is in flight or has just
\* settled; once that call has settled, with a success, a failure or a
\* rejection, isRegenerating is reset; without batchData it is never set
C20_RegenerationFinishes ==
  /\ [](ui.isRegenerating =>
          /\ ~Nullish(ui.batchData)
          /\ calls["c1"].op = "generateEnhancedQR"
          /\ calls["c1"].pc # "idle")
  /\ [](Nullish(ui.batchData) => ~ui.isRegenerating)
  /\ (ui.isRegenerating /\ calls["c1"].pc \in {"done", "rejected"})
       ~> ~ui.isRegenerating

\* a regeneration that failed has finished
C20_Witness ==
  /\ ~ui.isRegenerating /\ ~Nullish(ui.batchData)
  /\ Finished("c1", "generateEnhancedQR") /\ ~calls["c1"].result.success

\* the result of the awaited call is one handleRegenerate shows: it resolved
\* to success: true with a dataURL
Showable(r) ==
  r.pc = "done" /\ r.result.success /\ "dataURL" \in DOMAIN r.result

\* the image, the customization and the tracking URL of v are those of u
KeptDisplay(u, v) ==
  /\ v.currentQR = u.currentQR
  /\ v.customization = u.customization
  /\ v.qrData.trackingUrl = u.qrData.trackingUrl

\* the ways the promise handleRegenerate awaits can settle: a failure, a
\* success without a dataURL, a success with one, a rejection, and the way
\* the call in flight did settle
RegenerateOutcomes ==
  { Return(IdleCall, [success |-> FALSE, error |-> "API generation failed"]),
    Return(IdleCall, [success |-> TRUE]),
    Return(IdleCall, [success |-> TRUE,
                      dataURL |-> blobToDataURL(RemoteImage(<<>>, TRUE))]),
    Reject(IdleCall, "TypeError") }
  \cup (IF calls["c1"].pc \in {"done", "rejected"} THEN {calls["c1"]} ELSE {})

\* C21: currentQR changes only in the step in which handleRegenerate resumes
\* with a result of success: true and a dataURL, and becomes that dataURL; a
\* resumption with success: false, with no dataURL or with a thrown error
\* leaves currentQR, customization and qrData.trackingUrl as they were
C21_FailedRegenerationKeepsImage ==
  /\ [][ui'.currentQR # ui.currentQR
          => /\ ui.isRegenerating /\ ~ui'.isRegenerating
             /\ Showable(calls["c1"])
             /\ ui'.currentQR = calls["c1"].result.dataURL]_vars
  /\ [][(ui.isRegenerating /\ ~ui'.isRegenerating /\ ~Showable(calls["c1"]))
          => KeptDisplay(ui, ui')]_vars
  /\ [](\A r \in RegenerateOutcomes :
          /\ RegenerateSettled(ui, r).currentQR # ui.currentQR
               => Showable(r) /\ RegenerateSettled(ui, r).currentQR = r.result.dataURL
          /\ ~Showable(r) => KeptDisplay(ui, RegenerateSettled(ui, r)))

\* a regeneration replaced the mounted image, the size was then changed, and
\* a later regeneration that failed left that image on screen
C21_Witness ==
  /\ ~ui.isRegenerating /\ Finished("c1", "generateEnhancedQR")
  /\ ~calls["c1"].result.success
  /\ ui.currentQR # MountedImage
  /\ ui.customization.size = 200

====
